---- MODULE Spec2Model ----
(***************************************************************************)
(* A model of the STARK shard verifier core of sp1:                        *)
(*   - the Merkle vector commitment (recursion/circuit-v2 merkle_tree.rs), *)
(*   - Verifier::verify_shard and its helpers (stark verifier.rs),         *)
(*   - the witness read/write layer (circuit-v2 machine/witness.rs).       *)
(* Each subsystem has its own specification over its own variables; the    *)
(* variables of the other subsystems stay at their idle values.            *)
(***************************************************************************)
EXTENDS Integers, Sequences, FiniteSets, TLC

VARIABLES
    \* ---- Merkle tree (merkle_tree.rs) ----
    mPhase,         \* "idle" | "start" | "committed" | "aborted" | "opened" | "verified" | "circuit"
    leaves,         \* the argument of MerkleTree::commit
    height,         \* MerkleTree.height
    digest_layers,  \* MerkleTree.digest_layers
    root,           \* the root returned by commit
    oIndex,         \* the index given to open
    oValue,         \* the value returned by open
    oPath,          \* the path returned by open
    vArgs,          \* the arguments given to verify: [index, value, path, commitment]
    nResult,        \* result of native MerkleTree::verify: "Ok" | "VcsError" | "none"
    nDigest,        \* the digest native verify compares with the commitment
    cDigest,        \* the digest circuit verify asserts equal to the commitment
    cResult,        \* "holds" | "fails" | "none": the circuit's assert_digest_eq
    cBitsUsed       \* the bits the circuit consumed, in path order (leaf to root)

VARIABLES
    \* ---- Verifier::verify_shard (verifier.rs) ----
    pc,             \* the position of verify_shard
    input,          \* the arguments: [chips, vk_info, opened, chip_ordering]
    challenger,     \* the transcript: the challenger's operations, oldest first
    challenges,     \* [perm, alpha, zeta]: the sampled challenges
    batches,        \* the four batches assembled for pcs.verify
    events,         \* what verify_shard has called so far, oldest first
    chipIdx,        \* the chip the per-chip loop is at (1-based)
    checks,         \* per chip examined: outcome of the shape check, the folded value, outcome of the OOD check
    result          \* "none" | the value returned | [tag |-> "panic", at |-> ...]

VARIABLES
    \* ---- Witnessable (machine/witness.rs) ----
    wPhase,         \* "idle" | "start" | "written" | "read"
    wValue,         \* the value written and read
    wStream,        \* the witness stream write produced
    wVar,           \* the variables read allocated, with the elements they are filled with
    wRest,          \* the part of the stream read left
    wWriteLog,      \* per field visited by write: [field, count]
    wReadLog        \* per field taken from the stream by read: [field, count]

VARIABLES
    \* ---- verify_opening_shape and recompute_quotient called on their own ----
    fPhase,         \* "idle" | "start" | "returned"
    fArgs,          \* the function called and its arguments
    fResult         \* what it returned

shardVars == <<pc, input, challenger, challenges, batches, events, chipIdx, checks, result>>

merkleVars == <<mPhase, leaves, height, digest_layers, root, oIndex, oValue, oPath,
                vArgs, nResult, nDigest, cDigest, cResult, cBitsUsed>>

witnessVars == <<wPhase, wValue, wStream, wVar, wRest, wWriteLog, wReadLog>>

callVars == <<fPhase, fArgs, fResult>>

vars == <<merkleVars, shardVars, witnessVars, callVars>>

-----------------------------------------------------------------------------
(* Bounds of the model *)

\* longest leaf vector handed to commit
MaxLeaves == 5

\* leaf digests are 0..MaxDigest; 0 is HV::Digest::default()
MaxDigest == 1

-----------------------------------------------------------------------------
(* Arithmetic helpers *)

RECURSIVE Pow2(_)
Pow2(n) == IF n = 0 THEN 1 ELSE 2 * Pow2(n - 1)

\* usize::next_power_of_two
RECURSIVE NextPowerOfTwoFrom(_, _)
NextPowerOfTwoFrom(n, p) == IF p >= n THEN p ELSE NextPowerOfTwoFrom(n, 2 * p)

next_power_of_two(n) == NextPowerOfTwoFrom(n, 1)

\* log2_strict_usize: the argument is a power of two
RECURSIVE log2_strict_usize(_)
log2_strict_usize(n) == IF n <= 1 THEN 0 ELSE 1 + log2_strict_usize(n \div 2)

\* p3_util::reverse_bits_len: the low bit_len bits of x, reversed
RECURSIVE reverse_bits_len(_, _)
reverse_bits_len(x, bit_len) ==
    IF bit_len = 0 THEN 0
    ELSE (x % 2) * Pow2(bit_len - 1) + reverse_bits_len(x \div 2, bit_len - 1)

\* p3_util::reverse_slice_index_bits: entry i moves to position reverse_bits_len(i)
reverse_slice_index_bits(s) ==
    LET h == log2_strict_usize(Len(s))
    IN  [k \in 1..Len(s) |-> s[reverse_bits_len(k - 1, h) + 1]]

-----------------------------------------------------------------------------
(* Digests and the compression function *)

DefaultDigest == 0

Digests == 0..MaxDigest

\* HV::constant_compress, assumed collision-free: an injective pairing
\* (Cantor's), shifted by one so that no digest is its own preimage.
constant_compress(a, b) == ((a + b) * (a + b + 1)) \div 2 + b + 1

-----------------------------------------------------------------------------
(* MerkleTree::commit *)

\* last_layer.iter().tuples(): adjacent pairs, compressed
next_layer(last_layer) ==
    [k \in 1..(Len(last_layer) \div 2) |->
        constant_compress(last_layer[2 * k - 1], last_layer[2 * k])]

\* for _ in old_len..new_len { last_layer.push(default) }
PadLeaves(ls, new_len) ==
    ls \o [k \in 1..(new_len - Len(ls)) |-> DefaultDigest]

\* the loop `for _ in 0..height - 1`: returns [layers, last]
RECURSIVE ComputeLayers(_, _, _)
ComputeLayers(layers, last_layer, n) ==
    IF n = 0 THEN [layers |-> layers, last |-> last_layer]
    ELSE LET nl == next_layer(last_layer)
         IN  ComputeLayers(layers \o nl, nl, n - 1)

\* commit aborts when height = 0: `height - 1` underflows (a panic in a debug
\* build; in a release build the loop empties last_layer and last_layer[0]
\* is out of bounds).
CommitAborts(ls) == log2_strict_usize(next_power_of_two(Len(ls))) = 0

commit(ls) ==
    LET new_len == next_power_of_two(Len(ls))
        h       == log2_strict_usize(new_len)
        first   == reverse_slice_index_bits(PadLeaves(ls, new_len))
        r       == ComputeLayers(first, first, h - 1)
    IN  [root          |-> constant_compress(r.last[1], r.last[2]),
         height        |-> h,
         digest_layers |-> r.layers]

-----------------------------------------------------------------------------
(* MerkleTree::open *)

\* the loop of open: level i of height h, position bit_rev_index in the
\* layer that starts at offset
RECURSIVE OpenLoop(_, _, _, _, _, _)
OpenLoop(layers, h, i, bit_rev_index, offset, path) ==
    IF i = h THEN path
    ELSE LET sibling == IF bit_rev_index % 2 = 0
                        THEN layers[offset + bit_rev_index + 1 + 1]
                        ELSE layers[offset + bit_rev_index - 1 + 1]
         IN  OpenLoop(layers, h, i + 1, bit_rev_index \div 2,
                      offset + Pow2(h - i), Append(path, sibling))

open(layers, h, index) ==
    LET bit_rev_index == reverse_bits_len(index, h)
    IN  [value |-> layers[bit_rev_index + 1],
         path  |-> OpenLoop(layers, h, 0, bit_rev_index, 0, <<>>)]

-----------------------------------------------------------------------------
(* MerkleTree::verify (native) *)

RECURSIVE VerifyLoop(_, _, _, _)
VerifyLoop(index, value, path, k) ==
    IF k > Len(path) THEN value
    ELSE LET sibling == path[k]
             v == IF index % 2 = 0 THEN constant_compress(value, sibling)
                                   ELSE constant_compress(sibling, value)
         IN  VerifyLoop(index \div 2, v, path, k + 1)

\* verify folding the path as if the index were 0
verify_digest_index_ignored(index, value, path) ==
    VerifyLoop(0, value, path, 1)

\* the digest that verify compares with the commitment
verify_digest(index, value, path) ==
    VerifyLoop(reverse_bits_len(index, Len(path)), value, path, 1)

\* a verify whose final comparison is inverted
verify_inverted(index, value, path, commitment) ==
    IF verify_digest(index, value, path) # commitment THEN "Ok" ELSE "VcsError"

verify(index, value, path, commitment) ==
    IF verify_digest(index, value, path) = commitment THEN "Ok" ELSE "VcsError"

-----------------------------------------------------------------------------
(* verify (circuit) *)

\* C::num2bits: little-endian bits
num2bits(x, n) == [k \in 1..n |-> (x \div Pow2(k - 1)) % 2]

\* HV::select_chain_digest(bit, [a, b]): [a, b] for bit 0, [b, a] for bit 1
select_chain_digest(bit, pair) ==
    IF bit = 1 THEN <<pair[2], pair[1]>> ELSE pair

\* the bits taken in their given order: the `.rev()` forgotten
RevBitsForgotten(bits) == bits

\* index.iter().rev()
RevBits(bits) == [k \in 1..Len(bits) |-> bits[Len(bits) + 1 - k]]

\* path.iter().zip(index.iter().rev()): stops at the shorter of the two
RECURSIVE CircuitLoop(_, _, _, _)
CircuitLoop(rbits, value, path, k) ==
    IF k > Len(path) \/ k > Len(rbits) THEN value
    ELSE LET new_pair == select_chain_digest(rbits[k], <<value, path[k]>>)
         IN  CircuitLoop(rbits, constant_compress(new_pair[1], new_pair[2]), path, k + 1)

\* the digest the circuit asserts equal to the commitment
circuit_verify_digest(bits, value, path) ==
    CircuitLoop(RevBits(bits), value, path, 1)

\* the bits the zip hands to select_chain_digest, one per sibling
circuit_bits_used(bits, path) ==
    LET n == IF Len(path) < Len(bits) THEN Len(path) ELSE Len(bits)
    IN  SubSeq(RevBits(bits), 1, n)

-----------------------------------------------------------------------------
(* The Merkle state machine *)

RECURSIVE SeqsOfLen(_, _)
SeqsOfLen(S, n) ==
    IF n = 0 THEN {<<>>}
    ELSE {Append(s, x) : s \in SeqsOfLen(S, n - 1), x \in S}

\* every vector of 1..MaxLeaves leaf digests, and the vectors 1, 2, ..., n
\* and n, ..., 2, 1 of pairwise distinct non-default digests
LeafVectors ==
    UNION {SeqsOfLen(Digests, n) : n \in 1..MaxLeaves}
    \cup {[k \in 1..n |-> k] : n \in 1..MaxLeaves}
    \cup {[k \in 1..n |-> n + 1 - k] : n \in 1..MaxLeaves}

NoArgs == [index |-> 0, value |-> 0, path |-> <<>>, commitment |-> 0]

MerkleIdle ==
    /\ mPhase = "idle"
    /\ leaves = <<>>
    /\ height = 0
    /\ digest_layers = <<>>
    /\ root = 0
    /\ oIndex = 0
    /\ oValue = 0
    /\ oPath = <<>>
    /\ vArgs = NoArgs
    /\ nResult = "none"
    /\ nDigest = 0
    /\ cDigest = 0
    /\ cResult = "none"
    /\ cBitsUsed = <<>>

\* MerkleTree::commit(leaves) on a vector it can handle
Commit ==
    /\ UNCHANGED <<shardVars, witnessVars, callVars>>
    /\ mPhase = "start"
    /\ ~CommitAborts(leaves)
    /\ LET c == commit(leaves)
       IN  /\ root' = c.root
           /\ height' = c.height
           /\ digest_layers' = c.digest_layers
    /\ mPhase' = "committed"
    /\ UNCHANGED <<leaves, oIndex, oValue, oPath, vArgs, nResult, nDigest, cDigest, cResult, cBitsUsed>>

\* MerkleTree::commit(leaves) on a single leaf: the call never returns
CommitAbort ==
    /\ UNCHANGED <<shardVars, witnessVars, callVars>>
    /\ mPhase = "start"
    /\ CommitAborts(leaves)
    /\ mPhase' = "aborted"
    /\ UNCHANGED <<leaves, height, digest_layers, root, oIndex, oValue, oPath,
                   vArgs, nResult, nDigest, cDigest, cResult, cBitsUsed>>

\* tree.open(i), for an index of the padded tree
Open ==
    /\ UNCHANGED <<shardVars, witnessVars, callVars>>
    /\ mPhase = "committed"
    /\ \E i \in 0..(Pow2(height) - 1) :
          LET o == open(digest_layers, height, i)
          IN  /\ oIndex' = i
              /\ oValue' = o.value
              /\ oPath' = o.path
    /\ mPhase' = "opened"
    /\ UNCHANGED <<leaves, height, digest_layers, root, vArgs, nResult, nDigest,
                   cDigest, cResult, cBitsUsed>>

\* digests an adversary may put in the place of digest d of an opening: any
\* leaf digest, or the next digest after d
Replacements(d) == (Digests \cup {d + 1}) \ {d}

Honest == [index |-> oIndex, value |-> oValue, path |-> oPath, commitment |-> root]

\* the opening as returned, under any index of the padded tree
Reindexed == {[Honest EXCEPT !.index = j] : j \in 0..(Pow2(height) - 1)}

\* the opening with exactly one of root, value, or one sibling replaced
Tampered ==
    {[Honest EXCEPT !.commitment = d] : d \in Replacements(root)}
    \cup {[Honest EXCEPT !.value = d] : d \in Replacements(oValue)}
    \cup UNION {{[Honest EXCEPT !.path[k] = d] : d \in Replacements(oPath[k])} :
                  k \in 1..Len(oPath)}

\* MerkleTree::verify(index, value, path, commitment)
Verify ==
    /\ UNCHANGED <<shardVars, witnessVars, callVars>>
    /\ mPhase = "opened"
    /\ \E a \in Reindexed \cup Tampered :
          /\ vArgs' = a
          /\ nDigest' = verify_digest(a.index, a.value, a.path)
          /\ nResult' = verify(a.index, a.value, a.path, a.commitment)
    /\ mPhase' = "verified"
    /\ UNCHANGED <<leaves, height, digest_layers, root, oIndex, oValue, oPath,
                   cDigest, cResult, cBitsUsed>>

\* verify(builder, index_bits, value, path, commitment) in the circuit, on the
\* same arguments, the index given as num2bits(index, path.len())
CircuitVerify ==
    /\ UNCHANGED <<shardVars, witnessVars, callVars>>
    /\ mPhase = "verified"
    /\ LET bits == num2bits(vArgs.index, Len(vArgs.path))
           d    == circuit_verify_digest(bits, vArgs.value, vArgs.path)
       IN  /\ cDigest' = d
           /\ cResult' = IF d = vArgs.commitment THEN "holds" ELSE "fails"
           /\ cBitsUsed' = circuit_bits_used(bits, vArgs.path)
    /\ mPhase' = "circuit"
    /\ UNCHANGED <<leaves, height, digest_layers, root, oIndex, oValue, oPath,
                   vArgs, nResult, nDigest>>


-----------------------------------------------------------------------------
(* The field Val<SC> = F_P and the extension SC::Challenge = F_P[X]/(X^2 - W) *)

\* the modulus of the base field of the model
P == 5

\* SC::Challenge::D, the degree of the extension
D == 2

\* X^D = W in the extension; W is not a square mod P
W == 2

\* an element a + b X of the extension is the pair <<a, b>>
EF == {<<a, b>> : a \in 0..(P - 1), b \in 0..(P - 1)}

EZero == <<0, 0>>

EOne == <<1, 0>>

\* the embedding of the base field
FromBase(a) == <<a % P, 0>>

EAdd(x, y) == <<(x[1] + y[1]) % P, (x[2] + y[2]) % P>>

ESub(x, y) == <<(x[1] - y[1] + P) % P, (x[2] - y[2] + P) % P>>

EMul(x, y) == <<(x[1] * y[1] + W * x[2] * y[2]) % P, (x[1] * y[2] + x[2] * y[1]) % P>>

\* SC::Challenge::monomial(e): X^e
monomial(e) == IF e = 0 THEN <<1, 0>> ELSE <<0, 1>>

RECURSIVE EPow(_, _)
EPow(x, n) == IF n = 0 THEN EOne ELSE EMul(x, EPow(x, n - 1))

\* Field::inverse on a non-zero element: x^(P^2 - 2)
EInv(x) == EPow(x, P * P - 2)

\* the product and the sum of a sequence of extension elements
RECURSIVE EProduct(_)
EProduct(xs) == IF xs = <<>> THEN EOne ELSE EMul(Head(xs), EProduct(Tail(xs)))

RECURSIVE ESum(_)
ESum(xs) == IF xs = <<>> THEN EZero ELSE EAdd(Head(xs), ESum(Tail(xs)))

-----------------------------------------------------------------------------
(* Domains: two-adic multiplicative cosets [log_n, shift] of F_P *)

\* Val::generator(), a generator of the multiplicative group of F_P
FieldGenerator == 2

\* Val::two_adic_generator(bits): an element of order 2^bits
two_adic_generator(bits) == EPow(FromBase(FieldGenerator), (P - 1) \div Pow2(bits))

\* pcs.natural_domain_for_degree(degree)
natural_domain_for_degree(degree) ==
    [log_n |-> log2_strict_usize(degree), shift |-> EOne]

\* domain.next_point(zeta)
next_point(domain, pt) == EMul(pt, two_adic_generator(domain.log_n))

\* domain.create_disjoint_domain(min_size)
create_disjoint_domain(domain, min_size) ==
    [log_n |-> log2_strict_usize(next_power_of_two(min_size)),
     shift |-> FromBase(FieldGenerator)]

\* domain.split_domains(num_chunks)
split_domains(domain, num_chunks) ==
    LET log_chunks == log2_strict_usize(num_chunks)
    IN  [i \in 1..num_chunks |->
            [log_n |-> domain.log_n - log_chunks,
             shift |-> EMul(domain.shift, EPow(two_adic_generator(domain.log_n), i - 1))]]

\* domain.zp_at_point(pt): (pt / shift)^(2^log_n) - 1
zp_at_point(domain, pt) ==
    ESub(EPow(EMul(pt, EInv(domain.shift)), Pow2(domain.log_n)), EOne)

\* domain.first_point()
first_point(domain) == domain.shift

\* domain.selectors_at_point(zeta).inv_zeroifier
inv_zeroifier(domain, pt) == EInv(zp_at_point(domain, pt))

-----------------------------------------------------------------------------
(* Chips and opened values *)

\* The chips of the machine, by their capability: name(), preprocessed_width(),
\* width(), permutation_width(), log_quotient_degree().
ChipA == [name |-> "A", preprocessed_width |-> 1, width |-> 2,
          permutation_width |-> 1, log_quotient_degree |-> 0]

ChipB == [name |-> "B", preprocessed_width |-> 0, width |-> 1,
          permutation_width |-> 1, log_quotient_degree |-> 1]

ChipNames == {"A", "B"}

\* chip.quotient_width(): 1 << log_quotient_degree
quotient_width(chip) == Pow2(chip.log_quotient_degree)

\* an opened vector: len extension elements that tell which matrix (kind),
\* which entry of opened_values.chips (slot) and which row they belong to
OpenedVec(kind, slot, isNext, len) ==
    [k \in 1..len |-> <<kind, (2 * slot + isNext) % P>>]

\* the opened values of quotient chunk i of entry slot
QuotientChunk(slot, i, len) ==
    [e \in 1..len |-> <<(slot + i) % P, (e + 2 * i) % P>>]

\* The ways an opening can depart from the shape its chip declares.
FaultNames == {"prepLocal", "prepNext", "mainLocal", "mainNext",
               "permLocal", "permNext", "quotMore", "quotLess", "chunkSize"}

Delta(faults, name, d) == IF name \in faults THEN d ELSE 0

\* ChipOpenedValues for `chip` as entry `slot` of opened_values.chips: of the
\* declared shape, except for the faults
MakeOpening(chip, slot, faults, log_degree) ==
    LET nq == quotient_width(chip) + Delta(faults, "quotMore", 1) - Delta(faults, "quotLess", 1)
    IN  [preprocessed |->
            [local |-> OpenedVec(0, slot, 0, chip.preprocessed_width + Delta(faults, "prepLocal", 1)),
             next  |-> OpenedVec(0, slot, 1, chip.preprocessed_width + Delta(faults, "prepNext", 1))],
         main |->
            [local |-> OpenedVec(1, slot, 0, chip.width - Delta(faults, "mainLocal", 1)),
             next  |-> OpenedVec(1, slot, 1, chip.width - Delta(faults, "mainNext", 1))],
         permutation |->
            [local |-> OpenedVec(2, slot, 0, chip.permutation_width * D - Delta(faults, "permLocal", 1)),
             next  |-> OpenedVec(2, slot, 1, chip.permutation_width * D - Delta(faults, "permNext", 1))],
         quotient |->
            [i \in 1..nq |->
                QuotientChunk(slot, i, IF i = nq THEN D - Delta(faults, "chunkSize", 1) ELSE D)],
         log_degree |-> log_degree]

-----------------------------------------------------------------------------
(* Verifier::verify_opening_shape *)

ShapeOk == [ok |-> TRUE]

ShapeErr(kind, expected, actual) ==
    [ok |-> FALSE, kind |-> kind, expected |-> expected, actual |-> actual]

\* the first quotient chunk whose length is not D, or 0
RECURSIVE FirstBadChunk(_, _)
FirstBadChunk(quotient, i) ==
    IF i > Len(quotient) THEN 0
    ELSE IF Len(quotient[i]) # D THEN i
    ELSE FirstBadChunk(quotient, i + 1)

\* verify_opening_shape that looks at the widths only, not at the quotient
verify_opening_shape_widths_only(chip, opening) ==
    IF Len(opening.preprocessed.local) # chip.preprocessed_width
    THEN ShapeErr("PreprocessedWidthMismatch", chip.preprocessed_width,
                  Len(opening.preprocessed.local))
    ELSE IF Len(opening.preprocessed.next) # chip.preprocessed_width
    THEN ShapeErr("PreprocessedWidthMismatch", chip.preprocessed_width,
                  Len(opening.preprocessed.next))
    ELSE IF Len(opening.main.local) # chip.width
    THEN ShapeErr("MainWidthMismatch", chip.width, Len(opening.main.local))
    ELSE IF Len(opening.main.next) # chip.width
    THEN ShapeErr("MainWidthMismatch", chip.width, Len(opening.main.next))
    ELSE IF Len(opening.permutation.local) # chip.permutation_width * D
    THEN ShapeErr("PermutationWidthMismatch", chip.permutation_width,
                  Len(opening.permutation.local))
    ELSE IF Len(opening.permutation.next) # chip.permutation_width * D
    THEN ShapeErr("PermutationWidthMismatch", chip.permutation_width,
                  Len(opening.permutation.next))
    ELSE ShapeOk

verify_opening_shape(chip, opening) ==
    IF Len(opening.preprocessed.local) # chip.preprocessed_width
    THEN ShapeErr("PreprocessedWidthMismatch", chip.preprocessed_width,
                  Len(opening.preprocessed.local))
    ELSE IF Len(opening.preprocessed.next) # chip.preprocessed_width
    THEN ShapeErr("PreprocessedWidthMismatch", chip.preprocessed_width,
                  Len(opening.preprocessed.next))
    ELSE IF Len(opening.main.local) # chip.width
    THEN ShapeErr("MainWidthMismatch", chip.width, Len(opening.main.local))
    ELSE IF Len(opening.main.next) # chip.width
    THEN ShapeErr("MainWidthMismatch", chip.width, Len(opening.main.next))
    ELSE IF Len(opening.permutation.local) # chip.permutation_width * D
    THEN ShapeErr("PermutationWidthMismatch", chip.permutation_width,
                  Len(opening.permutation.local))
    ELSE IF Len(opening.permutation.next) # chip.permutation_width * D
    THEN ShapeErr("PermutationWidthMismatch", chip.permutation_width,
                  Len(opening.permutation.next))
    ELSE IF Len(opening.quotient) # quotient_width(chip)
    THEN ShapeErr("QuotientWidthMismatch", quotient_width(chip), Len(opening.quotient))
    ELSE IF FirstBadChunk(opening.quotient, 1) # 0
    THEN ShapeErr("QuotientChunkSizeMismatch", D,
                  Len(opening.quotient[FirstBadChunk(opening.quotient, 1)]))
    ELSE ShapeOk

-----------------------------------------------------------------------------
(* Verifier::recompute_quotient and Verifier::verify_constraints *)

\* zps[i] taken over every domain, domain i included
zps_with_own_domain(qc_domains, zeta, i) ==
    EProduct([j \in 1..Len(qc_domains) |->
        EMul(zp_at_point(qc_domains[j], zeta),
             EInv(zp_at_point(qc_domains[j], first_point(qc_domains[i]))))])

\* zps[i]: the product over the other domains j # i of
\* zp_j(zeta) * zp_j(first_point_i)^-1
zps(qc_domains, zeta, i) ==
    LET others == SelectSeq([j \in 1..Len(qc_domains) |-> j], LAMBDA j : j # i)
    IN  EProduct([n \in 1..Len(others) |->
            EMul(zp_at_point(qc_domains[others[n]], zeta),
                 EInv(zp_at_point(qc_domains[others[n]], first_point(qc_domains[i]))))])

\* recompute_quotient aborts on assert_eq!(ch.len(), D), or on zps[ch_i] when
\* there are more chunks than domains
RecomputeAborts(opening, qc_domains) ==
    \/ Len(opening.quotient) > Len(qc_domains)
    \/ \E i \in 1..Len(opening.quotient) : Len(opening.quotient[i]) # D

recompute_quotient(opening, qc_domains, zeta) ==
    ESum([ch_i \in 1..Len(opening.quotient) |->
        ESum([e_i \in 1..Len(opening.quotient[ch_i]) |->
            EMul(EMul(zps(qc_domains, zeta, ch_i), monomial(e_i - 1)),
                 opening.quotient[ch_i][e_i])])])

\* The values chip.eval may leave in the folder's accumulator: the one that
\* satisfies the quotient identity at zeta, and one that does not.
FoldedChoices(opening, trace_domain, qc_domains, zeta) ==
    LET q == recompute_quotient(opening, qc_domains, zeta)
        z == zp_at_point(trace_domain, zeta)
    IN  {EMul(q, z), EAdd(EMul(q, z), EOne)}

\* folded_constraints * sels.inv_zeroifier == quotient
verify_constraints(opening, trace_domain, qc_domains, zeta, folded_constraints) ==
    EMul(folded_constraints, inv_zeroifier(trace_domain, zeta))
        = recompute_quotient(opening, qc_domains, zeta)

-----------------------------------------------------------------------------
(* The challenger: a Fiat-Shamir transcript *)

OpSample == [op |-> "sample"]

OpObserve(cm) == [op |-> "observe", what |-> cm]

OpPcs == [op |-> "pcs.verify"]

\* challenger.observe(commit)
observe(ch, cm) == Append(ch, OpObserve(cm))

\* The value challenger.sample_ext_element() returns: a function of the
\* transcript so far. Its second coordinate is never 0, so the point lies
\* outside the base field and outside every domain.
SampleValue(ch) ==
    LET obs == Len(SelectSeq(ch, LAMBDA o : o.op = "observe"))
    IN  <<(Len(ch) + 2 * obs) % P, 1 + ((Len(ch) + obs) % (P - 1))>>

\* the challenger after sample_ext_element()
sample_ext_element(ch) == Append(ch, OpSample)

-----------------------------------------------------------------------------
(* The arguments of verify_shard *)

\* the most shape faults a proof carries, over all its openings
MaxFaults == 2

\* the number of openings differs from the number of chips by at most this
MaxCountGap == 1

\* proof.commitment and vk.commit
main_commit == "main"

permutation_commit == "perm"

quotient_commit == "quot"

vk_commit == "vk"

ChipLists == {<<ChipA>>, <<ChipB>>, <<ChipA, ChipB>>, <<ChipB, ChipA>>}

\* log_degree of entry `slot` (0-based) of opened_values.chips
LogDegreeOf(slot) == (slot + 1) % 2

FaultSets == {f \in SUBSET FaultNames : ~({"quotMore", "quotLess"} \subseteq f)}

\* one fault set per chip, at most MaxFaults faults in all
RECURSIVE FaultAssignments(_, _)
FaultAssignments(n, budget) ==
    IF n = 0 THEN {<<>>}
    ELSE UNION {{Append(fs, f) : fs \in FaultAssignments(n - 1, budget - Cardinality(f))} :
                  f \in {g \in FaultSets : Cardinality(g) <= budget}}

\* opened_values.chips for `chips` with the given faults, one opening per chip
OpenedFor(chips, faults) ==
    [k \in 1..Len(chips) |-> MakeOpening(chips[k], k - 1, faults[k], LogDegreeOf(k - 1))]

\* opened_values.chips of a length other than chips.len()
MiscountedOpened(chips, n) ==
    [k \in 1..n |-> MakeOpening(chips[IF k <= Len(chips) THEN k ELSE 1], k - 1, {},
                                LogDegreeOf(k - 1))]

\* the chip_ordering that maps each chip's name to its place in chips (0-based)
CorrectOrdering(chips) ==
    [nm \in {chips[k].name : k \in 1..Len(chips)} |->
        (CHOOSE k \in 1..Len(chips) : chips[k].name = nm) - 1]

\* vk.chip_information: (name, domain) of the chips the key lists
VkInfoA == <<[name |-> "A", domain |-> natural_domain_for_degree(2)]>>

VkInfoBA == <<[name |-> "B", domain |-> natural_domain_for_degree(2)],
              [name |-> "A", domain |-> natural_domain_for_degree(2)]>>

\* vk.chip_information with proof.chip_ordering as the proof may carry it:
\* correct, lacking a name the key lists, sending a name past the end of
\* opened_values.chips, or sending every name to entry 0
KeyAndOrderings(chips) ==
    LET ok == CorrectOrdering(chips)
    IN  {[vk_info |-> <<>>, chip_ordering |-> ok],
         [vk_info |-> VkInfoA, chip_ordering |-> ok],
         [vk_info |-> VkInfoBA, chip_ordering |-> ok],
         [vk_info |-> VkInfoA, chip_ordering |-> [nm \in (DOMAIN ok) \ {"A"} |-> ok[nm]]],
         [vk_info |-> VkInfoA, chip_ordering |-> [nm \in ChipNames |-> Len(chips)]],
         [vk_info |-> VkInfoBA, chip_ordering |-> [nm \in ChipNames |-> 0]]}

NoChallenges == [perm |-> <<>>, alpha |-> EZero, zeta |-> EZero]

NoBatches ==
    [preprocessed |-> <<>>, main |-> <<>>, permutation |-> <<>>, quotient |-> <<>>,
     rounds |-> <<>>]

RNone == [tag |-> "none"]

ROk == [tag |-> "Ok"]

RPanic(at) == [tag |-> "panic", at |-> at]

ShardIdle ==
    /\ pc = "idle"
    /\ input = [chips |-> <<>>, opened |-> <<>>, vk_info |-> <<>>, chip_ordering |-> <<>>]
    /\ challenger = <<>>
    /\ challenges = NoChallenges
    /\ batches = NoBatches
    /\ events = <<>>
    /\ chipIdx = 0
    /\ checks = <<>>
    /\ result = RNone

\* the challenger at entry: the caller has observed the main commitment
EntryChallenger == <<OpObserve(main_commit)>>

-----------------------------------------------------------------------------
(* Verifier::verify_shard, step by step *)

EvPcs(answer) == [ev |-> "pcs.verify", answer |-> answer]

EvShape(k) == [ev |-> "verify_opening_shape", chip |-> k]

EvConstraints(k) == [ev |-> "verify_constraints", chip |-> k]

log_degrees(inp) == [k \in 1..Len(inp.opened) |-> inp.opened[k].log_degree]

trace_domains(inp) ==
    [k \in 1..Len(inp.opened) |-> natural_domain_for_degree(Pow2(log_degrees(inp)[k]))]

log_quotient_degrees(inp) == [k \in 1..Len(inp.chips) |-> inp.chips[k].log_quotient_degree]

quotient_chunk_domains(inp) ==
    [k \in 1..Len(inp.chips) |->
        LET quotient_degree == Pow2(log_quotient_degrees(inp)[k])
            quotient_domain ==
                create_disjoint_domain(trace_domains(inp)[k],
                    Pow2(log_degrees(inp)[k] + log_quotient_degrees(inp)[k]))
        IN  split_domains(quotient_domain, quotient_degree)]

\* verify_shard without the chip count check
CheckChipCountSkipped ==
    /\ UNCHANGED <<merkleVars, witnessVars, callVars>>
    /\ pc = "entry"
    /\ pc' = "sample_perm"
    /\ UNCHANGED <<input, challenger, challenges, batches, events, chipIdx, checks, result>>

\* if chips.len() != opened_values.chips.len() { return Err(ChipOpeningLengthMismatch) }
CheckChipCount ==
    /\ UNCHANGED <<merkleVars, witnessVars, callVars>>
    /\ pc = "entry"
    /\ IF Len(input.chips) # Len(input.opened)
       THEN /\ result' = [tag |-> "ChipOpeningLengthMismatch"]
            /\ pc' = "done"
       ELSE /\ result' = result
            /\ pc' = "sample_perm"
    /\ UNCHANGED <<input, challenger, challenges, batches, events, chipIdx, checks>>

\* (0..2).map(|_| challenger.sample_ext_element()): one of the two samples
SamplePermutationChallenge ==
    /\ UNCHANGED <<merkleVars, witnessVars, callVars>>
    /\ pc = "sample_perm"
    /\ challenges' = [challenges EXCEPT !.perm = Append(@, SampleValue(challenger))]
    /\ challenger' = sample_ext_element(challenger)
    /\ pc' = IF Len(challenges.perm) + 1 = 2 THEN "observe_perm" ELSE "sample_perm"
    /\ UNCHANGED <<input, batches, events, chipIdx, checks, result>>

\* challenger.observe(permutation_commit.clone())
ObservePermutationCommit ==
    /\ UNCHANGED <<merkleVars, witnessVars, callVars>>
    /\ pc = "observe_perm"
    /\ challenger' = observe(challenger, permutation_commit)
    /\ pc' = "sample_alpha"
    /\ UNCHANGED <<input, challenges, batches, events, chipIdx, checks, result>>

\* let alpha = challenger.sample_ext_element()
SampleAlpha ==
    /\ UNCHANGED <<merkleVars, witnessVars, callVars>>
    /\ pc = "sample_alpha"
    /\ challenges' = [challenges EXCEPT !.alpha = SampleValue(challenger)]
    /\ challenger' = sample_ext_element(challenger)
    /\ pc' = "observe_quot"
    /\ UNCHANGED <<input, batches, events, chipIdx, checks, result>>

\* the quotient commitment left unobserved
ObserveQuotientCommitOmitted ==
    /\ UNCHANGED <<merkleVars, witnessVars, callVars>>
    /\ pc = "observe_quot"
    /\ pc' = "sample_zeta"
    /\ UNCHANGED <<input, challenger, challenges, batches, events, chipIdx, checks, result>>

\* challenger.observe(quotient_commit.clone())
ObserveQuotientCommit ==
    /\ UNCHANGED <<merkleVars, witnessVars, callVars>>
    /\ pc = "observe_quot"
    /\ challenger' = observe(challenger, quotient_commit)
    /\ pc' = "sample_zeta"
    /\ UNCHANGED <<input, challenges, batches, events, chipIdx, checks, result>>

\* let zeta = challenger.sample_ext_element()
SampleZeta ==
    /\ UNCHANGED <<merkleVars, witnessVars, callVars>>
    /\ pc = "sample_zeta"
    /\ challenges' = [challenges EXCEPT !.zeta = SampleValue(challenger)]
    /\ challenger' = sample_ext_element(challenger)
    /\ pc' = "preprocessed"
    /\ UNCHANGED <<input, batches, events, chipIdx, checks, result>>

\* why the preprocessed batch cannot be built, looking at vk.chip_information
\* in order: chip_ordering[name] on a missing key, or opened_values.chips[i]
\* out of bounds; "" when it can
RECURSIVE PreprocessedAbort(_, _)
PreprocessedAbort(inp, k) ==
    IF k > Len(inp.vk_info) THEN ""
    ELSE IF inp.vk_info[k].name \notin DOMAIN inp.chip_ordering THEN "chip_ordering[name]"
    ELSE IF inp.chip_ordering[inp.vk_info[k].name] >= Len(inp.opened)
    THEN "opened_values.chips[i]"
    ELSE PreprocessedAbort(inp, k + 1)

\* the preprocessed batch with the local and the next row exchanged
preprocessed_rows_exchanged(inp, zeta) ==
    [k \in 1..Len(inp.vk_info) |->
        LET domain == inp.vk_info[k].domain
            i      == inp.chip_ordering[inp.vk_info[k].name]
            values == inp.opened[i + 1].preprocessed
        IN  [domain |-> domain,
             points |-> << <<zeta, values.next>>,
                           <<next_point(domain, zeta), values.local>> >>]]

preprocessed_domains_points_and_opens(inp, zeta) ==
    [k \in 1..Len(inp.vk_info) |->
        LET domain == inp.vk_info[k].domain
            i      == inp.chip_ordering[inp.vk_info[k].name]
            values == inp.opened[i + 1].preprocessed
        IN  [domain |-> domain,
             points |-> << <<zeta, values.local>>,
                           <<next_point(domain, zeta), values.next>> >>]]

\* lines 77-88: the preprocessed batch
AssemblePreprocessed ==
    /\ UNCHANGED <<merkleVars, witnessVars, callVars>>
    /\ pc = "preprocessed"
    /\ IF PreprocessedAbort(input, 1) # ""
       THEN /\ result' = RPanic(PreprocessedAbort(input, 1))
            /\ pc' = "done"
            /\ batches' = batches
       ELSE /\ batches' = [batches EXCEPT !.preprocessed =
                              preprocessed_domains_points_and_opens(input, challenges.zeta)]
            /\ pc' = "main"
            /\ result' = result
    /\ UNCHANGED <<input, challenger, challenges, events, chipIdx, checks>>

main_domains_points_and_opens(inp, zeta) ==
    [k \in 1..Len(inp.opened) |->
        LET domain == trace_domains(inp)[k]
            values == inp.opened[k]
        IN  [domain |-> domain,
             points |-> << <<zeta, values.main.local>>,
                           <<next_point(domain, zeta), values.main.next>> >>]]

perm_domains_points_and_opens(inp, zeta) ==
    [k \in 1..Len(inp.opened) |->
        LET domain == trace_domains(inp)[k]
            values == inp.opened[k]
        IN  [domain |-> domain,
             points |-> << <<zeta, values.permutation.local>>,
                           <<next_point(domain, zeta), values.permutation.next>> >>]]

\* lines 90-116: the main and the permutation batch
AssembleMainAndPermutation ==
    /\ UNCHANGED <<merkleVars, witnessVars, callVars>>
    /\ pc = "main"
    /\ batches' = [batches EXCEPT
                      !.main = main_domains_points_and_opens(input, challenges.zeta),
                      !.permutation = perm_domains_points_and_opens(input, challenges.zeta)]
    /\ pc' = "quotient"
    /\ UNCHANGED <<input, challenger, challenges, events, chipIdx, checks, result>>

\* values.quotient.iter().zip_eq(qc_domains) panics when the lengths differ
QuotientZipAborts(inp) ==
    \E k \in 1..Len(inp.opened) :
        Len(inp.opened[k].quotient) # Len(quotient_chunk_domains(inp)[k])

RECURSIVE Flatten(_)
Flatten(ss) == IF ss = <<>> THEN <<>> ELSE Head(ss) \o Flatten(Tail(ss))

quotient_domains_points_and_opens(inp, zeta) ==
    Flatten([k \in 1..Len(inp.opened) |->
        [c \in 1..Len(inp.opened[k].quotient) |->
            [domain |-> quotient_chunk_domains(inp)[k][c],
             points |-> << <<zeta, inp.opened[k].quotient[c]>> >>]]])

\* lines 118-142: the quotient chunk domains and the quotient batch
AssembleQuotient ==
    /\ UNCHANGED <<merkleVars, witnessVars, callVars>>
    /\ pc = "quotient"
    /\ IF QuotientZipAborts(input)
       THEN /\ result' = RPanic("zip_eq")
            /\ pc' = "done"
            /\ batches' = batches
       ELSE /\ batches' = [batches EXCEPT !.quotient =
                              quotient_domains_points_and_opens(input, challenges.zeta)]
            /\ pc' = "pcs"
            /\ result' = result
    /\ UNCHANGED <<input, challenger, challenges, events, chipIdx, checks>>

\* the first argument of pcs.verify: the four (commitment, batch) pairs
rounds(b) ==
    << <<vk_commit, b.preprocessed>>, <<main_commit, b.main>>,
       <<permutation_commit, b.permutation>>, <<quotient_commit, b.quotient>> >>

\* what pcs.verify may answer: Ok, or one of its errors
PcsAnswers == {"Ok", "OpeningError1", "OpeningError2"}

\* pcs.verify called and its error dropped
PcsVerifyUnchecked ==
    /\ UNCHANGED <<merkleVars, witnessVars, callVars>>
    /\ pc = "pcs"
    /\ challenger' = Append(challenger, OpPcs)
    /\ \E answer \in PcsAnswers : events' = Append(events, EvPcs(answer))
    /\ pc' = "shape"
    /\ chipIdx' = 1
    /\ batches' = [batches EXCEPT !.rounds = rounds(batches)]
    /\ UNCHANGED <<input, challenges, checks, result>>

\* config.pcs().verify(rounds, opening_proof, challenger).map_err(InvalidopeningArgument)?
PcsVerify ==
    /\ UNCHANGED <<merkleVars, witnessVars, callVars>>
    /\ pc = "pcs"
    /\ challenger' = Append(challenger, OpPcs)
    /\ \E answer \in PcsAnswers :
          /\ events' = Append(events, EvPcs(answer))
          /\ IF answer = "Ok"
             THEN /\ pc' = "shape"
                  /\ chipIdx' = 1
                  /\ result' = result
             ELSE /\ pc' = "done"
                  /\ chipIdx' = chipIdx
                  /\ result' = [tag |-> "InvalidopeningArgument", e |-> answer]
    /\ batches' = [batches EXCEPT !.rounds = rounds(batches)]
    /\ UNCHANGED <<input, challenges, checks>>

\* the shape check called and its error dropped
VerifyOpeningShapeUnchecked ==
    /\ UNCHANGED <<merkleVars, witnessVars, callVars>>
    /\ pc = "shape"
    /\ events' = Append(events, EvShape(chipIdx))
    /\ LET r == verify_opening_shape(input.chips[chipIdx], input.opened[chipIdx])
       IN  checks' = Append(checks, [shape |-> r.ok, ood |-> FALSE, folded |-> EZero])
    /\ pc' = "constraints"
    /\ UNCHANGED <<input, challenger, challenges, batches, chipIdx, result>>

\* Self::verify_opening_shape(chip, values).map_err(OpeningShapeError(chip.name(), e))?
VerifyOpeningShape ==
    /\ UNCHANGED <<merkleVars, witnessVars, callVars>>
    /\ pc = "shape"
    /\ events' = Append(events, EvShape(chipIdx))
    /\ LET chip == input.chips[chipIdx]
           r    == verify_opening_shape(chip, input.opened[chipIdx])
       IN  IF r.ok
           THEN /\ pc' = "constraints"
                /\ result' = result
                /\ checks' = Append(checks, [shape |-> TRUE, ood |-> FALSE, folded |-> EZero])
           ELSE /\ pc' = "done"
                /\ result' = [tag |-> "OpeningShapeError", name |-> chip.name, e |-> r]
                /\ checks' = Append(checks, [shape |-> FALSE, ood |-> FALSE, folded |-> EZero])
    /\ UNCHANGED <<input, challenger, challenges, batches, chipIdx>>

\* verify_constraints called and its error dropped
VerifyConstraintsUnchecked ==
    /\ UNCHANGED <<merkleVars, witnessVars, callVars>>
    /\ pc = "constraints"
    /\ events' = Append(events, EvConstraints(chipIdx))
    /\ LET values == input.opened[chipIdx]
           td     == trace_domains(input)[chipIdx]
           qc     == quotient_chunk_domains(input)[chipIdx]
       IN  \E folded \in FoldedChoices(values, td, qc, challenges.zeta) :
              /\ checks' = [checks EXCEPT ![chipIdx].folded = folded, ![chipIdx].ood =
                               verify_constraints(values, td, qc, challenges.zeta, folded)]
              /\ IF chipIdx = Len(input.chips)
                 THEN /\ pc' = "done"
                      /\ result' = ROk
                      /\ chipIdx' = chipIdx
                 ELSE /\ pc' = "shape"
                      /\ result' = result
                      /\ chipIdx' = chipIdx + 1
    /\ UNCHANGED <<input, challenger, challenges, batches>>

\* verify_constraints whose error names the last chip of the slice
VerifyConstraintsNamesLast ==
    /\ UNCHANGED <<merkleVars, witnessVars, callVars>>
    /\ pc = "constraints"
    /\ events' = Append(events, EvConstraints(chipIdx))
    /\ LET chip   == input.chips[Len(input.chips)]
           values == input.opened[chipIdx]
           td     == trace_domains(input)[chipIdx]
           qc     == quotient_chunk_domains(input)[chipIdx]
       IN  IF RecomputeAborts(values, qc)
           THEN /\ pc' = "done"
                /\ result' = RPanic("recompute_quotient")
                /\ UNCHANGED <<checks, chipIdx>>
           ELSE \E folded \in FoldedChoices(values, td, qc, challenges.zeta) :
                  IF verify_constraints(values, td, qc, challenges.zeta, folded)
                  THEN /\ checks' = [checks EXCEPT ![chipIdx].folded = folded,
                                                   ![chipIdx].ood = TRUE]
                       /\ IF chipIdx = Len(input.chips)
                          THEN /\ pc' = "done"
                               /\ result' = ROk
                               /\ chipIdx' = chipIdx
                          ELSE /\ pc' = "shape"
                               /\ result' = result
                               /\ chipIdx' = chipIdx + 1
                  ELSE /\ pc' = "done"
                       /\ result' = [tag |-> "OodEvaluationMismatch", name |-> chip.name]
                       /\ checks' = [checks EXCEPT ![chipIdx].folded = folded]
                       /\ chipIdx' = chipIdx
    /\ UNCHANGED <<input, challenger, challenges, batches>>

\* Self::verify_constraints(chip, values, ...).map_err(OodEvaluationMismatch(chip.name()))?
\* and the end of the loop body
VerifyConstraints ==
    /\ UNCHANGED <<merkleVars, witnessVars, callVars>>
    /\ pc = "constraints"
    /\ events' = Append(events, EvConstraints(chipIdx))
    /\ LET chip   == input.chips[chipIdx]
           values == input.opened[chipIdx]
           td     == trace_domains(input)[chipIdx]
           qc     == quotient_chunk_domains(input)[chipIdx]
       IN  IF RecomputeAborts(values, qc)
           THEN /\ pc' = "done"
                /\ result' = RPanic("recompute_quotient")
                /\ UNCHANGED <<checks, chipIdx>>
           ELSE \E folded \in FoldedChoices(values, td, qc, challenges.zeta) :
                  IF verify_constraints(values, td, qc, challenges.zeta, folded)
                  THEN /\ checks' = [checks EXCEPT ![chipIdx].folded = folded,
                                                   ![chipIdx].ood = TRUE]
                       /\ IF chipIdx = Len(input.chips)
                          THEN /\ pc' = "done"
                               /\ result' = ROk
                               /\ chipIdx' = chipIdx
                          ELSE /\ pc' = "shape"
                               /\ result' = result
                               /\ chipIdx' = chipIdx + 1
                  ELSE /\ pc' = "done"
                       /\ result' = [tag |-> "OodEvaluationMismatch", name |-> chip.name]
                       /\ checks' = [checks EXCEPT ![chipIdx].folded = folded]
                       /\ chipIdx' = chipIdx
    /\ UNCHANGED <<input, challenger, challenges, batches>>

-----------------------------------------------------------------------------
(* The witness layer: Witnessable::write and Witnessable::read *)

\* the largest field element a witness value holds
MaxFelt == 2

\* the longest input_buffer and output_buffer of a challenger
MaxBuf == 1

\* the largest DIGEST_ELEMENTS of a Hash
MaxDigestElements == 2

\* the most shard proofs a witness value carries
MaxProofs == 1

\* DuplexChallenger<InnerVal, InnerPerm, 16, 8>: the sponge width
WIDTH == 16

\* InnerVal::from_bool
from_bool(b) == IF b THEN 1 ELSE 0

\* a value of the witness layer, by its type
Felt(n) == [ty |-> "Felt", v |-> n]

Bool(b) == [ty |-> "Bool", b |-> b]

\* an array or a Vec
SeqOf(items) == [ty |-> "Seq", items |-> items]

\* a field the circuit carries without reading it
Meta(m) == [ty |-> "Meta", m |-> m]

\* n field elements, telling where they start
Felts(n, start) == SeqOf([i \in 1..n |-> Felt((start + i) % (MaxFelt + 1))])

\* Word<T>(pub [T; 4])
Word(start) == ("ty" :> "Word") @@ ("0" :> Felts(4, start))

HashOf(n, start) == [ty |-> "Hash", array |-> Felts(n, start)]

Challenger(start, nin, nout) ==
    [ty |-> "DuplexChallenger",
     sponge_state  |-> Felts(WIDTH, start),
     input_buffer  |-> Felts(nin, start + 1),
     output_buffer |-> Felts(nout, start + 2)]

Vk(n, start) ==
    [ty |-> "StarkVerifyingKey",
     commit           |-> HashOf(n, start),
     pc_start         |-> Felt((start + 1) % (MaxFelt + 1)),
     chip_information |-> Meta("chip_information"),
     chip_ordering    |-> Meta("chip_ordering")]

\* a ShardProof, as the elements it puts on the stream
ShardProofOf(start) == Felts(1 + (start % 2), start)

ShardProofs(n, start) == SeqOf([i \in 1..n |-> ShardProofOf(start + i)])

VksAndProofs(n, d, start) ==
    SeqOf([i \in 1..n |-> SeqOf(<<Vk(d, start + i), ShardProofOf(start + i)>>)])

RecursionValues(n, d, start, nbuf, complete) ==
    [ty |-> "SP1RecursionWitnessValues",
     vk                             |-> Vk(d, start),
     shard_proofs                   |-> ShardProofs(n, start),
     leaf_challenger                |-> Challenger(start, nbuf, 0),
     initial_reconstruct_challenger |-> Challenger(start + 1, 0, nbuf),
     is_complete                    |-> Bool(complete)]

CompressValues(n, d, start, complete) ==
    [ty |-> "SP1CompressWitnessValues",
     vks_and_proofs |-> VksAndProofs(n, d, start),
     is_complete    |-> Bool(complete)]

DeferredValues(n, d, start, nbuf, complete) ==
    [ty |-> "SP1DeferredWitnessValues",
     vks_and_proofs                    |-> VksAndProofs(n, d, start),
     start_reconstruct_deferred_digest |-> Felts(d, start),
     sp1_vk                            |-> Vk(d, start + 1),
     leaf_challenger                   |-> Challenger(start, nbuf, 0),
     committed_value_digest            |-> SeqOf([i \in 1..d |-> Word(start + i)]),
     deferred_proofs_digest            |-> Felts(d, start + 2),
     end_pc                            |-> Felt(start % (MaxFelt + 1)),
     end_shard                         |-> Felt((start + 1) % (MaxFelt + 1)),
     end_execution_shard               |-> Felt((start + 2) % (MaxFelt + 1)),
     init_addr_bits                    |-> Felts(d + 1, start),
     finalize_addr_bits                |-> Felts(d + 1, start + 1),
     is_complete                       |-> Bool(complete)]

\* the values write and read are applied to
WitnessValues ==
    LET S == 0..MaxFelt
        L == 0..MaxBuf
        N == 1..MaxDigestElements
    IN  {Word(s) : s \in S}
        \cup {HashOf(d, s) : d \in N, s \in S}
        \cup {Challenger(s, a, b) : s \in S, a \in L, b \in L}
        \cup {Vk(d, s) : d \in N, s \in S}
        \cup {RecursionValues(n, d, s, a, c) :
                n \in 0..MaxProofs, d \in N, s \in S, a \in L, c \in BOOLEAN}
        \cup {CompressValues(n, d, s, c) :
                n \in 0..MaxProofs, d \in N, s \in S, c \in BOOLEAN}
        \cup {DeferredValues(n, d, s, a, c) :
                n \in 0..MaxProofs, d \in N, s \in S, a \in L, c \in BOOLEAN}

\* the fields fn write visits, in the order of its statements
WriteFields(ty) ==
    CASE ty = "Word" -> <<"0">>
      [] ty = "DuplexChallenger" -> <<"sponge_state", "input_buffer", "output_buffer">>
      [] ty = "Hash" -> <<"array">>
      [] ty = "StarkVerifyingKey" -> <<"commit", "pc_start">>
      [] ty = "SP1RecursionWitnessValues" ->
            <<"vk", "shard_proofs", "leaf_challenger", "initial_reconstruct_challenger",
              "is_complete">>
      [] ty = "SP1CompressWitnessValues" -> <<"vks_and_proofs", "is_complete">>
      [] ty = "SP1DeferredWitnessValues" ->
            <<"vks_and_proofs", "start_reconstruct_deferred_digest", "sp1_vk",
              "leaf_challenger", "committed_value_digest", "deferred_proofs_digest",
              "end_pc", "end_shard", "end_execution_shard", "init_addr_bits",
              "finalize_addr_bits", "is_complete">>

\* a statement of fn read: the field of self it visits, how (read, read of
\* from_bool(..), clone), and the field of the variable it fills
Rd(name) == [name |-> name, how |-> "read", into |-> name]

RdBool(name) == [name |-> name, how |-> "from_bool", into |-> name]

Clone(name) == [name |-> name, how |-> "clone", into |-> name]

\* fn read of DuplexChallenger taking the two buffers in the other order
ReadFieldsBuffersSwapped(ty) ==
    CASE ty = "Word" -> <<Rd("0")>>
      [] ty = "DuplexChallenger" ->
            <<Rd("sponge_state"), Rd("output_buffer"), Rd("input_buffer")>>
      [] ty = "Hash" -> <<Rd("array")>>
      [] ty = "StarkVerifyingKey" ->
            <<[name |-> "commit", how |-> "read", into |-> "commitment"], Rd("pc_start"),
              Clone("chip_information"), Clone("chip_ordering")>>
      [] ty = "SP1RecursionWitnessValues" ->
            <<Rd("vk"), Rd("shard_proofs"), Rd("leaf_challenger"),
              Rd("initial_reconstruct_challenger"), RdBool("is_complete")>>
      [] ty = "SP1CompressWitnessValues" -> <<Rd("vks_and_proofs"), RdBool("is_complete")>>
      [] ty = "SP1DeferredWitnessValues" ->
            <<Rd("vks_and_proofs"), Rd("start_reconstruct_deferred_digest"), Rd("sp1_vk"),
              Rd("leaf_challenger"), Rd("committed_value_digest"),
              Rd("deferred_proofs_digest"), Rd("end_pc"), Rd("end_shard"),
              Rd("end_execution_shard"), Rd("init_addr_bits"), Rd("finalize_addr_bits"),
              RdBool("is_complete")>>

\* the statements of fn read, in order
ReadFields(ty) ==
    CASE ty = "Word" -> <<Rd("0")>>
      [] ty = "DuplexChallenger" ->
            <<Rd("sponge_state"), Rd("input_buffer"), Rd("output_buffer")>>
      [] ty = "Hash" -> <<Rd("array")>>
      [] ty = "StarkVerifyingKey" ->
            <<[name |-> "commit", how |-> "read", into |-> "commitment"], Rd("pc_start"),
              Clone("chip_information"), Clone("chip_ordering")>>
      [] ty = "SP1RecursionWitnessValues" ->
            <<Rd("vk"), Rd("shard_proofs"), Rd("leaf_challenger"),
              Rd("initial_reconstruct_challenger"), RdBool("is_complete")>>
      [] ty = "SP1CompressWitnessValues" -> <<Rd("vks_and_proofs"), RdBool("is_complete")>>
      [] ty = "SP1DeferredWitnessValues" ->
            <<Rd("vks_and_proofs"), Rd("start_reconstruct_deferred_digest"), Rd("sp1_vk"),
              Rd("leaf_challenger"), Rd("committed_value_digest"),
              Rd("deferred_proofs_digest"), Rd("end_pc"), Rd("end_shard"),
              Rd("end_execution_shard"), Rd("init_addr_bits"), Rd("finalize_addr_bits"),
              RdBool("is_complete")>>

\* what the writer appends for a field element
write_felt(x) == <<x>>

\* what the writer appends for a boolean: one element, from_bool of it
write_bit(b) == <<from_bool(b)>>

\* Witnessable::write: the elements the value appends to the witness stream
RECURSIVE write(_)
write(v) ==
    IF v.ty = "Felt" THEN write_felt(v.v)
    ELSE IF v.ty = "Bool" THEN write_bit(v.b)
    ELSE IF v.ty = "Seq" THEN Flatten([i \in 1..Len(v.items) |-> write(v.items[i])])
    ELSE Flatten([n \in 1..Len(WriteFields(v.ty)) |-> write(v[WriteFields(v.ty)[n]])])

\* what a variable holds when the stream ended before it was filled
Unbound == -1

\* the field element a variable is filled with: the next of the stream
read_felt(stream, taken) ==
    IF taken + 1 > Len(stream) THEN Unbound ELSE stream[taken + 1]

\* the number of stream elements fn read of v takes
RECURSIVE ReadSize(_), SeqOffset(_, _), FieldOffset(_, _, _)
ReadSize(v) ==
    IF v.ty = "Felt" THEN 1
    ELSE IF v.ty = "Seq" THEN SeqOffset(v.items, Len(v.items) + 1)
    ELSE FieldOffset(v, ReadFields(v.ty), Len(ReadFields(v.ty)) + 1)

\* the number of elements taken before item i of a sequence is read
SeqOffset(items, i) ==
    IF i <= 1 THEN 0 ELSE SeqOffset(items, i - 1) + ReadSize(items[i - 1])

\* the number of elements one statement of fn read takes
FieldSize(v, f) ==
    IF f.how = "clone" THEN 0
    ELSE IF f.how = "from_bool" THEN ReadSize(Felt(from_bool(v[f.name].b)))
    ELSE ReadSize(v[f.name])

\* the number of elements taken before statement n of fn read runs
FieldOffset(v, fields, n) ==
    IF n <= 1 THEN 0 ELSE FieldOffset(v, fields, n - 1) + FieldSize(v, fields[n - 1])

\* Witnessable::read: the variables allocated for v, each leaf holding the
\* stream element it is filled with; `taken` elements of the stream were
\* taken before
RECURSIVE read(_, _, _)
read(v, stream, taken) ==
    IF v.ty = "Felt"
    THEN Felt(read_felt(stream, taken))
    ELSE IF v.ty = "Seq"
    THEN SeqOf([i \in 1..Len(v.items) |->
                    read(v.items[i], stream, taken + SeqOffset(v.items, i))])
    ELSE LET fields == ReadFields(v.ty)
         IN  [y \in {"ty"} \cup {fields[n].into : n \in 1..Len(fields)} |->
                IF y = "ty" THEN v.ty
                ELSE LET n == CHOOSE n \in 1..Len(fields) : fields[n].into = y
                         f == fields[n]
                         at == taken + FieldOffset(v, fields, n)
                     IN  IF f.how = "clone" THEN v[f.name]
                         ELSE IF f.how = "from_bool"
                         THEN read(Felt(from_bool(v[f.name].b)), stream, at)
                         ELSE read(v[f.name], stream, at)]

\* the part of the stream fn read of v leaves
Rest(v, stream) ==
    IF ReadSize(v) >= Len(stream) THEN <<>>
    ELSE SubSeq(stream, ReadSize(v) + 1, Len(stream))

\* per field write visits: its name and the number of elements it appended
WriteLog(v) ==
    [n \in 1..Len(WriteFields(v.ty)) |->
        [field |-> WriteFields(v.ty)[n], count |-> Len(write(v[WriteFields(v.ty)[n]]))]]

\* per field read takes from the stream: its name and the number of elements
\* it took
ReadLog(v, stream) ==
    LET fields == ReadFields(v.ty)
        reads  == SelectSeq([n \in 1..Len(fields) |-> n], LAMBDA n : fields[n].how # "clone")
        Min(a, b) == IF a < b THEN a ELSE b
        Max(a, b) == IF a < b THEN b ELSE a
    IN  [k \in 1..Len(reads) |->
            [field |-> fields[reads[k]].name,
             count |-> Max(0, Min(FieldSize(v, fields[reads[k]]),
                                  Len(stream) - FieldOffset(v, fields, reads[k])))]]

WitnessIdle ==
    /\ wPhase = "idle"
    /\ wValue = Felt(0)
    /\ wStream = <<>>
    /\ wVar = Felt(0)
    /\ wRest = <<>>
    /\ wWriteLog = <<>>
    /\ wReadLog = <<>>

\* value.write(&mut witness) on an empty stream
WriteWitness ==
    /\ UNCHANGED <<merkleVars, shardVars, callVars>>
    /\ wPhase = "start"
    /\ wStream' = write(wValue)
    /\ wWriteLog' = WriteLog(wValue)
    /\ wPhase' = "written"
    /\ UNCHANGED <<wValue, wVar, wRest, wReadLog>>

\* value.read(&mut builder), the variables then filled from the stream
ReadWitness ==
    /\ UNCHANGED <<merkleVars, shardVars, callVars>>
    /\ wPhase = "written"
    /\ wVar' = read(wValue, wStream, 0)
    /\ wRest' = Rest(wValue, wStream)
    /\ wReadLog' = ReadLog(wValue, wStream)
    /\ wPhase' = "read"
    /\ UNCHANGED <<wValue, wStream, wWriteLog>>

-----------------------------------------------------------------------------
(* verify_opening_shape and recompute_quotient, called on their own *)

\* the largest slot number the opened values of a call are taken from
MaxSlot == 2

\* (chip, opening) for verify_opening_shape: every chip with every opening
\* that carries at most MaxFaults faults
ShapeCalls ==
    {[fn |-> "verify_opening_shape", chip |-> chip,
      opening |-> MakeOpening(chip, slot, faults, 1)] :
        chip \in {ChipA, ChipB},
        slot \in 0..1,
        faults \in {f \in FaultSets : Cardinality(f) <= MaxFaults}}

\* the chunk domains verify_shard derives for a trace of 2^log_degree rows
\* and a quotient of 2^log_quotient_degree chunks
ChunkDomainsFor(log_degree, log_quotient_degree) ==
    split_domains(
        create_disjoint_domain(natural_domain_for_degree(Pow2(log_degree)),
                               Pow2(log_degree + log_quotient_degree)),
        Pow2(log_quotient_degree))

\* the points sample_ext_element may give for zeta
ZetaPoints == {z \in EF : z[2] # 0}

\* (opening, qc_domains, zeta) for recompute_quotient: 1 or 2 chunks of D
\* elements each over their chunk domains, the last chunk possibly short, and
\* 4 chunks over the four one-point domains
QuotientCalls ==
    {[fn |-> "recompute_quotient",
      opening |-> [quotient |->
                      [i \in 1..Pow2(lqd) |->
                          QuotientChunk(slot, i, IF i = Pow2(lqd) THEN D - short ELSE D)]],
      qc_domains |-> ChunkDomainsFor(ld, lqd),
      zeta |-> zeta] :
        ld \in 0..1, lqd \in 0..1, slot \in 0..MaxSlot, short \in 0..1, zeta \in ZetaPoints}
    \cup
    {[fn |-> "recompute_quotient",
      opening |-> [quotient |-> [i \in 1..4 |-> QuotientChunk(slot, i, D)]],
      qc_domains |-> ChunkDomainsFor(0, 2),
      zeta |-> zeta] :
        slot \in 0..MaxSlot, zeta \in ZetaPoints}

CallIdle ==
    /\ fPhase = "idle"
    /\ fArgs = [fn |-> "none"]
    /\ fResult = [fn |-> "none"]

\* Self::verify_opening_shape(chip, opening)
CallVerifyOpeningShape ==
    /\ UNCHANGED <<merkleVars, shardVars, witnessVars>>
    /\ fPhase = "start"
    /\ fArgs.fn = "verify_opening_shape"
    /\ fResult' = verify_opening_shape(fArgs.chip, fArgs.opening)
    /\ fPhase' = "returned"
    /\ UNCHANGED fArgs

\* Self::recompute_quotient(opening, qc_domains, zeta)
CallRecomputeQuotient ==
    /\ UNCHANGED <<merkleVars, shardVars, witnessVars>>
    /\ fPhase = "start"
    /\ fArgs.fn = "recompute_quotient"
    /\ fResult' = IF RecomputeAborts(fArgs.opening, fArgs.qc_domains)
                  THEN [aborted |-> TRUE]
                  ELSE [aborted |-> FALSE,
                        value |-> recompute_quotient(fArgs.opening, fArgs.qc_domains,
                                                     fArgs.zeta)]
    /\ fPhase' = "returned"
    /\ UNCHANGED fArgs

-----------------------------------------------------------------------------
(* Specifications: one per subsystem, the others idle *)

InitMerkle ==
    /\ CallIdle
    /\ ShardIdle
    /\ WitnessIdle
    /\ mPhase = "start"
    /\ leaves \in LeafVectors
    /\ height = 0
    /\ digest_layers = <<>>
    /\ root = 0
    /\ oIndex = 0
    /\ oValue = 0
    /\ oPath = <<>>
    /\ vArgs = NoArgs
    /\ nResult = "none"
    /\ nDigest = 0
    /\ cDigest = 0
    /\ cResult = "none"
    /\ cBitsUsed = <<>>

NextMerkle == Commit \/ CommitAbort \/ Open \/ Verify \/ CircuitVerify

SpecMerkle == InitMerkle /\ [][NextMerkle]_vars

InitShard ==
    /\ CallIdle
    /\ MerkleIdle
    /\ WitnessIdle
    /\ pc = "entry"
    /\ \E chips \in ChipLists :
          \/ \E faults \in FaultAssignments(Len(chips), MaxFaults),
                ko \in KeyAndOrderings(chips) :
                input = [chips |-> chips, opened |-> OpenedFor(chips, faults),
                         vk_info |-> ko.vk_info, chip_ordering |-> ko.chip_ordering]
          \/ \E n \in ((Len(chips) - MaxCountGap)..(Len(chips) + MaxCountGap)) \ {Len(chips)} :
                input = [chips |-> chips, opened |-> MiscountedOpened(chips, n),
                         vk_info |-> <<>>, chip_ordering |-> CorrectOrdering(chips)]
    /\ challenger = EntryChallenger
    /\ challenges = NoChallenges
    /\ batches = NoBatches
    /\ events = <<>>
    /\ chipIdx = 0
    /\ checks = <<>>
    /\ result = RNone

NextShard ==
    \/ CheckChipCount
    \/ SamplePermutationChallenge
    \/ ObservePermutationCommit
    \/ SampleAlpha
    \/ ObserveQuotientCommit
    \/ SampleZeta
    \/ AssemblePreprocessed
    \/ AssembleMainAndPermutation
    \/ AssembleQuotient
    \/ PcsVerify
    \/ VerifyOpeningShape
    \/ VerifyConstraints

SpecShard == InitShard /\ [][NextShard]_vars

InitWitness ==
    /\ MerkleIdle
    /\ CallIdle
    /\ ShardIdle
    /\ wPhase = "start"
    /\ wValue \in WitnessValues
    /\ wStream = <<>>
    /\ wVar = Felt(0)
    /\ wRest = <<>>
    /\ wWriteLog = <<>>
    /\ wReadLog = <<>>

NextWitness == WriteWitness \/ ReadWitness

SpecWitness == InitWitness /\ [][NextWitness]_vars

InitCalls ==
    /\ MerkleIdle
    /\ ShardIdle
    /\ WitnessIdle
    /\ fPhase = "start"
    /\ fArgs \in ShapeCalls \cup QuotientCalls
    /\ fResult = [fn |-> "none"]

NextCalls == CallVerifyOpeningShape \/ CallRecomputeQuotient

SpecCalls == InitCalls /\ [][NextCalls]_vars

-----------------------------------------------------------------------------
(* Properties of the Merkle commitment *)

\* C1 (Merkle round-trip): for every non-empty leaf vector, a single leaf
\* included, commit returns a tree; for every i < leaves.len() open(i)
\* returns leaves[i], and verify(i, value, path, root) returns Ok.
C1_RoundTrip ==
    /\ mPhase # "aborted"
    /\ (mPhase \in {"opened", "verified", "circuit"} /\ oIndex < Len(leaves))
          => oValue = leaves[oIndex + 1]
    /\ (mPhase \in {"verified", "circuit"} /\ oIndex < Len(leaves) /\ vArgs = Honest)
          => nResult = "Ok"

\* C2 (Merkle soundness): with an injective compress, an opening in which
\* exactly one of the root, the value or one sibling was replaced by a
\* different digest is rejected by verify with VcsError.
C2_Soundness ==
    (mPhase \in {"verified", "circuit"} /\ vArgs \in Tampered) => nResult = "VcsError"

\* a tampered sibling of a tree of height 3 was verified
C2_Witness ==
    /\ mPhase = "verified"
    /\ height = 3
    /\ vArgs \in Tampered
    /\ vArgs.path # oPath
    /\ vArgs.value = oValue
    /\ vArgs.commitment = root
    /\ nResult = "VcsError"

\* C10 (circuit verify agrees with native verify): with the index given as
\* the little-endian bits num2bits(index, path.len()), the digest the circuit
\* asserts equal to the commitment is the digest native verify compares with
\* it, the assertion holds exactly when native verify returns Ok, and the
\* sibling at level k of the leaf-to-root path is paired using bit
\* (len - 1 - k) of the index: most significant bit first.
C10_CircuitAgrees ==
    mPhase = "circuit" =>
        /\ cDigest = nDigest
        /\ (cResult = "holds") <=> (nResult = "Ok")
        /\ Len(cBitsUsed) = Len(vArgs.path)
        /\ \A k \in 1..Len(cBitsUsed) :
              cBitsUsed[k] = (vArgs.index \div Pow2(Len(vArgs.path) - k)) % 2

\* the circuit accepted the honest opening of index 1 of a tree of height 3,
\* whose bits 1,0,0 are not a palindrome
C10_Witness ==
    /\ mPhase = "circuit"
    /\ height = 3
    /\ vArgs = Honest
    /\ oIndex = 1
    /\ cBitsUsed = <<0, 0, 1>>
    /\ cResult = "holds"
    /\ nResult = "Ok"

-----------------------------------------------------------------------------
(* Properties of verify_shard *)

\* the five conditions an opening has to meet for its chip
ShapeHolds(chip, opening) ==
    /\ Len(opening.preprocessed.local) = chip.preprocessed_width
    /\ Len(opening.preprocessed.next) = chip.preprocessed_width
    /\ Len(opening.main.local) = chip.width
    /\ Len(opening.main.next) = chip.width
    /\ Len(opening.permutation.local) = chip.permutation_width * D
    /\ Len(opening.permutation.next) = chip.permutation_width * D
    /\ Len(opening.quotient) = Pow2(chip.log_quotient_degree)
    /\ \A i \in 1..Len(opening.quotient) : Len(opening.quotient[i]) = D

CountMatches == Len(input.chips) = Len(input.opened)

SomeShapeViolated ==
    /\ CountMatches
    /\ \E k \in 1..Len(input.chips) : ~ShapeHolds(input.chips[k], input.opened[k])

PcsInvoked == \E n \in 1..Len(events) : events[n].ev = "pcs.verify"

PcsAccepted == \E n \in 1..Len(events) : events[n] = EvPcs("Ok")

\* the challenger operations verify_shard has performed since entry
ops == SubSeq(challenger, Len(EntryChallenger) + 1, Len(challenger))

ExpectedOps ==
    <<OpSample, OpSample, OpObserve(permutation_commit), OpSample,
      OpObserve(quotient_commit), OpSample>>

IsPrefix(s, t) == Len(s) <= Len(t) /\ s = SubSeq(t, 1, Len(s))

\* C3 (shape totality before the PCS): when the opening of some chip violates
\* one of the five shape conditions, verify_shard returns OpeningShapeError
\* for a chip whose opening violates them, and pcs.verify has not been
\* invoked, whatever it would have answered.  Stated for the runs that
\* return a value.
C3_ShapeBeforePcs ==
    (pc = "done" /\ result.tag # "panic" /\ SomeShapeViolated) =>
        /\ result.tag = "OpeningShapeError"
        /\ \E k \in 1..Len(input.chips) :
              /\ input.chips[k].name = result.name
              /\ ~ShapeHolds(input.chips[k], input.opened[k])
        /\ ~PcsInvoked

\* C4 (transcript order): what verify_shard does with the challenger is
\* always a prefix of sample, sample, observe(permutation_commit), sample,
\* observe(quotient_commit), sample, pcs.verify; the six operations are
\* complete while the batches are assembled and when pcs.verify is called,
\* pcs.verify is the seventh, and the main commitment is never observed.
C4_TranscriptOrder ==
    /\ IsPrefix(ops, Append(ExpectedOps, OpPcs))
    /\ pc \in {"preprocessed", "main", "quotient", "pcs"} => ops = ExpectedOps
    /\ PcsInvoked <=> ops = Append(ExpectedOps, OpPcs)
    /\ (CountMatches /\ pc = "done") => Len(ops) >= Len(ExpectedOps)
    /\ \A n \in 1..Len(ops) : ops[n] # OpObserve(main_commit)
    /\ challenges.zeta # EZero => Len(ops) >= Len(ExpectedOps)

\* pcs.verify was handed the challenger after the six operations
C4_Witness ==
    /\ PcsInvoked
    /\ challenger = EntryChallenger \o ExpectedOps \o <<OpPcs>>
    /\ challenges.zeta # EZero

\* C5 (chip count mismatch): when chips.len() differs from
\* opened_values.chips.len(), verify_shard returns ChipOpeningLengthMismatch
\* at once: the challenger is as at entry, pcs.verify is not invoked, no
\* batch is assembled, no chip is shape-checked or evaluated.
C5_CountMismatch ==
    (~CountMatches /\ pc # "entry") =>
        /\ pc = "done"
        /\ result = [tag |-> "ChipOpeningLengthMismatch"]
        /\ challenger = EntryChallenger
        /\ challenges = NoChallenges
        /\ batches = NoBatches
        /\ events = <<>>
        /\ checks = <<>>

\* two chips and one opening: rejected
C5_Witness ==
    /\ Len(input.chips) = 2
    /\ Len(input.opened) = 1
    /\ pc = "done"
    /\ result = [tag |-> "ChipOpeningLengthMismatch"]

\* C6 (PCS rejection): when pcs.verify answers an error e, verify_shard
\* returns InvalidopeningArgument(e) with that very e, and the call to
\* pcs.verify is the last thing it did: no shape check, no evaluation.
C6_PcsError ==
    \A n \in 1..Len(events) :
        (events[n].ev = "pcs.verify" /\ events[n].answer # "Ok") =>
            /\ pc = "done"
            /\ result = [tag |-> "InvalidopeningArgument", e |-> events[n].answer]
            /\ n = Len(events)
            /\ checks = <<>>

\* pcs.verify answered OpeningError2 for two chips with well-shaped openings
C6_Witness ==
    /\ pc = "done"
    /\ Len(input.chips) = 2
    /\ events = <<EvPcs("OpeningError2")>>
    /\ result = [tag |-> "InvalidopeningArgument", e |-> "OpeningError2"]

\* the quotient identity of chip k with the folded value the chip left
OodHolds(k) ==
    EMul(checks[k].folded, inv_zeroifier(trace_domains(input)[k], challenges.zeta))
        = recompute_quotient(input.opened[k], quotient_chunk_domains(input)[k],
                             challenges.zeta)

\* C7 (no partial acceptance): verify_shard returns Ok exactly when the chip
\* count matches, pcs.verify accepted, and every chip was checked, has an
\* opening of the declared shape and satisfies
\* folded_constraints * inv_zeroifier == quotient; a check that failed on
\* some chip leaves an error as the result.
C7_NoPartialAcceptance ==
    pc = "done" =>
        /\ result = ROk <=>
              /\ CountMatches
              /\ PcsAccepted
              /\ Len(checks) = Len(input.chips)
              /\ \A k \in 1..Len(checks) :
                    /\ ShapeHolds(input.chips[k], input.opened[k])
                    /\ OodHolds(k)
        /\ \A k \in 1..Len(checks) :
              ~checks[k].shape =>
                  result.tag = "OpeningShapeError" /\ result.name = input.chips[k].name
        /\ (\E k \in 1..Len(checks) : checks[k].shape /\ ~checks[k].ood) =>
              result.tag \in {"OodEvaluationMismatch", "panic"}

\* two chips, both checks passed on both: Ok
C7_Witness ==
    /\ pc = "done"
    /\ result = ROk
    /\ Len(input.chips) = 2
    /\ Len(checks) = 2
    /\ \A k \in 1..2 : checks[k].shape /\ checks[k].ood /\ OodHolds(k)

\* C8 (totality): whatever the key, the chips and the proof, verify_shard
\* ends by returning Ok or a VerificationError; it never aborts.
C8_Total ==
    result.tag \in {"none", "Ok", "ChipOpeningLengthMismatch", "InvalidopeningArgument",
                    "OpeningShapeError", "OodEvaluationMismatch"}

-----------------------------------------------------------------------------
(* Properties of the witness layer *)

\* the name the variable gives to a field of the value
VarField(ty, x) == IF ty = "StarkVerifyingKey" /\ x = "commit" THEN "commitment" ELSE x

\* the variables of v with every leaf holding the value written for it, a
\* boolean held as from_bool of it
RECURSIVE Written(_)
Written(v) ==
    IF v.ty = "Felt" \/ v.ty = "Meta" THEN v
    ELSE IF v.ty = "Bool" THEN Felt(from_bool(v.b))
    ELSE IF v.ty = "Seq" THEN SeqOf([i \in 1..Len(v.items) |-> Written(v.items[i])])
    ELSE [y \in {VarField(v.ty, x) : x \in DOMAIN v} |->
            LET x == CHOOSE x \in DOMAIN v : VarField(v.ty, x) = y
            IN  IF x = "ty" THEN v.ty ELSE Written(v[x])]

\* C9 (witness read/write symmetry): for each of the seven types, read takes
\* from the stream the fields write put there, in the same order and with
\* the same number of elements each, uses the stream up, and every variable
\* ends up holding the value written for it, is_complete as
\* from_bool(is_complete).
C9_ReadWriteSymmetry ==
    wPhase = "read" =>
        /\ wReadLog = wWriteLog
        /\ wRest = <<>>
        /\ wVar = Written(wValue)

\* a deferred witness with a proof, a challenger with a non-empty input
\* buffer and is_complete set was written and read back
C9_Witness ==
    /\ wPhase = "read"
    /\ wValue.ty = "SP1DeferredWitnessValues"
    /\ wValue.is_complete.b
    /\ Len(wValue.vks_and_proofs.items) = 1
    /\ Len(wValue.leaf_challenger.input_buffer.items) = 1
    /\ wVar.is_complete = Felt(1)
    /\ wVar.sp1_vk.commitment = Written(wValue.sp1_vk.commit)
    /\ Len(wReadLog) = 12

-----------------------------------------------------------------------------
(* Properties of verify_opening_shape and recompute_quotient *)

\* the kind of the first check, in the order Preprocessed, Main,
\* Permutation, QuotientWidth, QuotientChunkSize, that the opening violates
FirstViolated(chip, opening) ==
    IF \/ Len(opening.preprocessed.local) # chip.preprocessed_width
       \/ Len(opening.preprocessed.next) # chip.preprocessed_width
    THEN "PreprocessedWidthMismatch"
    ELSE IF Len(opening.main.local) # chip.width \/ Len(opening.main.next) # chip.width
    THEN "MainWidthMismatch"
    ELSE IF \/ Len(opening.permutation.local) # chip.permutation_width * D
            \/ Len(opening.permutation.next) # chip.permutation_width * D
    THEN "PermutationWidthMismatch"
    ELSE IF Len(opening.quotient) # Pow2(chip.log_quotient_degree)
    THEN "QuotientWidthMismatch"
    ELSE IF \E i \in 1..Len(opening.quotient) : Len(opening.quotient[i]) # D
    THEN "QuotientChunkSizeMismatch"
    ELSE "none"

ShapeReturned == fPhase = "returned" /\ fArgs.fn = "verify_opening_shape"

\* C11 (verify_opening_shape): on every (chip, opening) it returns Ok exactly
\* when the widths, the number of quotient chunks and the length of every
\* chunk are the declared ones, and otherwise the error kind of the first
\* violated check in the order Preprocessed, Main, Permutation,
\* QuotientWidth, QuotientChunkSize.
C11_ShapeFunction ==
    ShapeReturned =>
        /\ fResult.ok <=> ShapeHolds(fArgs.chip, fArgs.opening)
        /\ ~fResult.ok => fResult.kind = FirstViolated(fArgs.chip, fArgs.opening)

\* an opening with a short main row and a short last quotient chunk was
\* answered with MainWidthMismatch
C11_Witness ==
    /\ ShapeReturned
    /\ Len(fArgs.opening.main.next) # fArgs.chip.width
    /\ \E i \in 1..Len(fArgs.opening.quotient) : Len(fArgs.opening.quotient[i]) # D
    /\ ~fResult.ok
    /\ fResult.kind = "MainWidthMismatch"

\* C12 (error payload): the two components of an error returned by
\* verify_opening_shape are the expected and the actual length of the
\* comparison that failed, and so are never equal.
C12_ExpectedActualDiffer ==
    (ShapeReturned /\ ~fResult.ok) => fResult.expected # fResult.actual

\* the polynomial in X a chunk of D coefficients stands for
ChunkValue(ch) == ESum([e \in 1..D |-> EMul(EPow(<<0, 1>>, e - 1), ch[e])])

\* the product, over the domains 1..j other than i, of
\* zp_j(zeta) * zp_j(first point of domain i)^-1
RECURSIVE Weight(_, _, _, _)
Weight(qc, zeta, i, j) ==
    IF j = 0 THEN EOne
    ELSE IF j = i THEN Weight(qc, zeta, i, j - 1)
    ELSE EMul(Weight(qc, zeta, i, j - 1),
              EMul(zp_at_point(qc[j], zeta), EInv(zp_at_point(qc[j], qc[i].shift))))

QuotientReturned ==
    /\ fPhase = "returned"
    /\ fArgs.fn = "recompute_quotient"
    /\ ~fResult.aborted

\* C17 (recompute_quotient): the value returned is the sum over the chunks i
\* of Weight_i * (sum over e < D of X^e * q[i][e]), Weight_i being the
\* product over the other domains j # i of zp_j(zeta) / zp_j(first point of
\* domain i); with a single chunk it is the value of that chunk alone.
C17_QuotientFormula ==
    QuotientReturned =>
        LET q  == fArgs.opening.quotient
            qc == fArgs.qc_domains
        IN  /\ fResult.value =
                  ESum([i \in 1..Len(q) |->
                          EMul(Weight(qc, fArgs.zeta, i, Len(qc)), ChunkValue(q[i]))])
            /\ Len(q) = 1 => fResult.value = ChunkValue(q[1])

\* four chunks whose weights are not all 1 were combined to a non-zero value
C17_Witness ==
    /\ QuotientReturned
    /\ Len(fArgs.opening.quotient) = 4
    /\ \E i \in 1..4 : Weight(fArgs.qc_domains, fArgs.zeta, i, 4) \notin {EOne, EZero}
    /\ fResult.value # EZero
    /\ fResult.value # ESum([i \in 1..4 |-> ChunkValue(fArgs.opening.quotient[i])])

-----------------------------------------------------------------------------
(* Further properties of the Merkle commitment *)

\* where layer l (the leaves are layer 0) starts in digest_layers, and entry
\* k (from 1) of it
LayerStart(h, l) == 2 * Pow2(h) - 2 * Pow2(h - l)

LayerEntry(layers, h, l, k) == layers[LayerStart(h, l) + k]

\* the layout of the tree commit returned for ls
LayoutOf(ls, h, layers, rt) ==
    LET n      == Pow2(h)
        padded == ls \o [k \in 1..(n - Len(ls)) |-> 0]
    IN  /\ n >= Len(ls)
        /\ n < 2 * Len(ls)
        /\ Len(layers) = 2 * n - 2
        /\ \A k \in 1..n :
              LayerEntry(layers, h, 0, k) = padded[reverse_bits_len(k - 1, h) + 1]
        /\ \A l \in 1..(h - 1) : \A k \in 1..Pow2(h - l) :
              LayerEntry(layers, h, l, k) =
                  constant_compress(LayerEntry(layers, h, l - 1, 2 * k - 1),
                                    LayerEntry(layers, h, l - 1, 2 * k))
        /\ rt = constant_compress(LayerEntry(layers, h, h - 1, 1),
                                  LayerEntry(layers, h, h - 1, 2))

\* C13 (Merkle layout): for every non-empty leaf vector commit returns a
\* tree, of height log2(next_power_of_two(leaves.len())), whose digest_layers
\* hold 2 * 2^height - 2 digests: the padded leaves in bit-reversed order,
\* then each layer as the pairwise compression of the one before; the root
\* is the compression of the last two and is not stored.
C13_Layout ==
    /\ mPhase # "aborted"
    /\ mPhase \in {"committed", "opened", "verified", "circuit"} =>
          LayoutOf(leaves, height, digest_layers, root)

\* a and b have the same first k entries
AgreeOn(a, b, k) ==
    /\ k <= Len(a)
    /\ k <= Len(b)
    /\ SubSeq(a, 1, k) = SubSeq(b, 1, k)

\* ls padded with default digests to a power-of-two length
Padded(ls) == ls \o [k \in 1..(next_power_of_two(Len(ls)) - Len(ls)) |-> 0]

\* C14 (padding independence): commit returns a tree for every non-empty
\* leaf vector, and for the committed vector and any other vector with the
\* same first k entries, the two roots are equal exactly when the two padded
\* vectors are identical, and for every i < k open(i) returns the same value
\* and the same path from both trees.
C14_PaddingIndependence ==
    /\ mPhase # "aborted"
    /\ mPhase = "committed" =>
          \A other \in LeafVectors : \A k \in 1..Len(leaves) :
              AgreeOn(leaves, other, k) =>
                  /\ ~CommitAborts(other)
                  /\ (commit(other).root = root) <=> (Padded(other) = Padded(leaves))
                  /\ \A i \in 0..(k - 1) :
                        open(commit(other).digest_layers, commit(other).height, i)
                            = open(digest_layers, height, i)

-----------------------------------------------------------------------------
(* Further properties of verify_shard *)

\* what verify_shard calls for the chips 1..n in turn, the constraint check
\* of chip n left out when it is still pending
RECURSIVE ChipCalls(_, _)
ChipCalls(n, pending) ==
    IF n = 0 THEN <<>>
    ELSE ChipCalls(n - 1, FALSE)
            \o (IF pending THEN <<EvShape(n)>> ELSE <<EvShape(n), EvConstraints(n)>>)

\* chip k passes both of its checks
Passes(k) == ShapeHolds(input.chips[k], input.opened[k]) /\ OodHolds(k)

\* C15 (per-chip check order): once pcs.verify accepted, the chips are taken
\* in the order of the slice, each with its shape check and then its
\* constraint check; the chips before the last one examined passed both,
\* and the result is OpeningShapeError(name, kind) when the last one examined
\* has a wrong shape, else OodEvaluationMismatch(name) when its quotient
\* identity fails, else Ok with every chip examined.
C15_ChipOrder ==
    PcsAccepted =>
        LET n    == Len(checks)
            done == SubSeq(events, 2, Len(events))
        IN  /\ events[1] = EvPcs("Ok")
            /\ pc = "shape" => chipIdx = n + 1 /\ done = ChipCalls(n, FALSE)
            /\ pc = "constraints" => chipIdx = n /\ done = ChipCalls(n, TRUE)
            /\ pc = "done" =>
                  /\ n >= 1
                  /\ \A k \in 1..(n - 1) : Passes(k)
                  /\ IF ~ShapeHolds(input.chips[n], input.opened[n])
                     THEN /\ done = ChipCalls(n, TRUE)
                          /\ result.tag = "OpeningShapeError"
                          /\ result.name = input.chips[n].name
                          /\ result.e.kind = FirstViolated(input.chips[n], input.opened[n])
                     ELSE /\ done = ChipCalls(n, FALSE)
                          /\ IF ~OodHolds(n)
                             THEN result = [tag |-> "OodEvaluationMismatch",
                                            name |-> input.chips[n].name]
                             ELSE n = Len(input.chips) /\ result = ROk

\* the first of two chips failed the quotient identity and the second has a
\* wrong shape: the first is reported and the second is not examined
C15_Witness ==
    /\ pc = "done"
    /\ PcsAccepted
    /\ Len(input.chips) = 2
    /\ ~ShapeHolds(input.chips[2], input.opened[2])
    /\ Len(checks) = 1
    /\ events = <<EvPcs("Ok"), EvShape(1), EvConstraints(1)>>
    /\ result = [tag |-> "OodEvaluationMismatch", name |-> input.chips[1].name]

\* the number of pcs.verify calls made
PcsCalls == Cardinality({n \in 1..Len(events) : events[n].ev = "pcs.verify"})

\* the number of quotient chunks of the openings before opening k
RECURSIVE ChunksBefore(_)
ChunksBefore(k) ==
    IF k <= 1 THEN 0 ELSE ChunksBefore(k - 1) + Len(input.opened[k - 1].quotient)

\* the two points a trace is opened at, with the rows opened there
TwoPoints(domain, rows) ==
    << <<challenges.zeta, rows.local>>,
       <<EMul(challenges.zeta, two_adic_generator(domain.log_n)), rows.next>> >>

\* the four batches handed to pcs.verify are the ones the protocol asks for
BatchesAsSpecified ==
    LET R == batches.rounds
    IN  /\ Len(R) = 4
        /\ <<R[1][1], R[2][1], R[3][1], R[4][1]>>
              = <<vk_commit, main_commit, permutation_commit, quotient_commit>>
        /\ Len(R[1][2]) = Len(input.vk_info)
        /\ \A k \in 1..Len(input.vk_info) :
              LET info == input.vk_info[k]
                  v    == input.opened[input.chip_ordering[info.name] + 1]
              IN  R[1][2][k] = [domain |-> info.domain,
                                points |-> TwoPoints(info.domain, v.preprocessed)]
        /\ Len(R[2][2]) = Len(input.chips)
        /\ Len(R[3][2]) = Len(input.chips)
        /\ \A k \in 1..Len(input.chips) :
              LET dom == [log_n |-> input.opened[k].log_degree, shift |-> EOne]
              IN  /\ R[2][2][k] = [domain |-> dom,
                                   points |-> TwoPoints(dom, input.opened[k].main)]
                  /\ R[3][2][k] = [domain |-> dom,
                                   points |-> TwoPoints(dom, input.opened[k].permutation)]
        /\ Len(R[4][2]) = ChunksBefore(Len(input.opened) + 1)
        /\ \A k \in 1..Len(input.opened) : \A c \in 1..Len(input.opened[k].quotient) :
              R[4][2][ChunksBefore(k) + c] =
                  [domain |-> quotient_chunk_domains(input)[k][c],
                   points |-> << <<challenges.zeta, input.opened[k].quotient[c]>> >>]

\* C16 as stated (batch assembly): every verify_shard call invokes pcs.verify
\* exactly once, with the four batches (vk.commit, preprocessed),
\* (main_commit, main), (permutation_commit, permutation), (quotient_commit,
\* quotient) built as the protocol asks.
C16_ExactlyOnce ==
    pc = "done" => PcsCalls = 1 /\ BatchesAsSpecified

\* C16 as amended: pcs.verify is invoked at most once, and not at all only in
\* a call that returns ChipOpeningLengthMismatch or aborts while the batches
\* are assembled; whenever it is invoked its four batches are
\* (vk.commit, preprocessed), (main_commit, main), (permutation_commit,
\* permutation), (quotient_commit, quotient): one preprocessed entry per
\* vk.chip_information element with the values of
\* opened_values.chips[chip_ordering[name]], one main and one permutation
\* entry per chip at zeta and next_point(zeta), one quotient entry per chunk
\* at zeta only.
C16_BatchAssembly ==
    /\ PcsCalls <= 1
    /\ (pc = "done" /\ PcsCalls = 0) =>
          result.tag \in {"ChipOpeningLengthMismatch", "panic"}
    /\ PcsCalls = 1 => BatchesAsSpecified
    /\ PcsCalls = 0 => batches.rounds = <<>>

\* pcs.verify was called for chips A, B with a key that lists B before A:
\* two preprocessed entries, the second (A) with the values of opening 1,
\* and three quotient chunks
C16_Witness ==
    /\ PcsCalls = 1
    /\ input.chips = <<ChipA, ChipB>>
    /\ Len(input.vk_info) = 2
    /\ input.vk_info[1].name = "B"
    /\ input.chip_ordering["B"] = 1
    /\ batches.rounds[1][2][2].points[1][2] = input.opened[1].preprocessed.local
    /\ Len(batches.rounds[4][2]) = 3
    /\ BatchesAsSpecified

\* C18 (the assertion of recompute_quotient): verify_shard never aborts in
\* recompute_quotient; whenever verify_constraints is called for a chip, the
\* call before it was verify_opening_shape for the same chip, it returned
\* Ok, and every quotient chunk of that opening has exactly D elements, as
\* many chunks as there are chunk domains.
C18_AssertHolds ==
    /\ result # RPanic("recompute_quotient")
    /\ \A n \in 1..Len(events) :
          events[n].ev = "verify_constraints" =>
              LET k == events[n].chip
              IN  /\ n > 1
                  /\ events[n - 1] = EvShape(k)
                  /\ k <= Len(checks)
                  /\ checks[k].shape
                  /\ Len(input.opened[k].quotient) = Len(quotient_chunk_domains(input)[k])
                  /\ \A c \in 1..Len(input.opened[k].quotient) :
                        Len(input.opened[k].quotient[c]) = D

\* recompute_quotient ran for chip B, which has two chunks, in a call whose
\* other opening ends the run with a short chunk
C18_Witness ==
    /\ pc = "done"
    /\ input.chips = <<ChipB, ChipA>>
    /\ events = <<EvPcs("Ok"), EvShape(1), EvConstraints(1), EvShape(2)>>
    /\ Len(input.opened[1].quotient) = 2
    /\ result.tag = "OpeningShapeError"
    /\ result.e.kind = "QuotientChunkSizeMismatch"

\* the leaves are pairwise distinct and none is the default digest
DistinctLeaves ==
    /\ \A a, b \in 1..Len(leaves) : a # b => leaves[a] # leaves[b]
    /\ \A a \in 1..Len(leaves) : leaves[a] # 0

\* C19 (index binding): with an injective compress and pairwise distinct,
\* non-default leaves, the opening of a leaf i, handed to verify with the
\* root under any other index j < 2^height, is rejected with VcsError: it is
\* accepted only under the index it was opened at.
C19_IndexBinding ==
    (/\ mPhase \in {"verified", "circuit"}
     /\ DistinctLeaves
     /\ oIndex < Len(leaves)
     /\ vArgs \in Reindexed) =>
        /\ vArgs.index # oIndex => nResult = "VcsError"
        /\ nResult = "Ok" <=> vArgs.index = oIndex

\* the opening of leaf 0 of five distinct leaves was verified under index 4,
\* which differs from 0 in the top bit only, and rejected
C19_Witness ==
    /\ mPhase = "verified"
    /\ DistinctLeaves
    /\ Len(leaves) = 5
    /\ oIndex = 0
    /\ vArgs = [Honest EXCEPT !.index = 4]
    /\ nResult = "VcsError"

====
